---- MODULE Spec2Model ----
(***************************************************************************)
(* The binary instruction codec of the processor emulator:                 *)
(* src/src/emulator/processor/processor/instruction.rs.                    *)
(*                                                                         *)
(* Two driver bytes, an optional registers byte and an optional            *)
(* little-endian immediate are decoded by Instruction::new into an         *)
(* Instruction, and encoded back by Instruction::encode.                   *)
(***************************************************************************)
EXTENDS Integers, Sequences, FiniteSets

VARIABLES
    field,        \* bitfield harness: the setter that was applied ("none" before)
    u,            \* bitfield harness: the byte the setter is applied to (self)
    v,            \* bitfield harness: the value handed to the setter
    r,            \* bitfield harness: the byte the setter returned
    stream,       \* the bytes of the reader handed to Instruction::new
    cursor,       \* the reader's position (bytes consumed so far)
    instruction,  \* the programmatically constructed Instruction, if any
    decoded,      \* the Result of the last Instruction::new
    encoded,      \* the Vec<u8> returned by the last Instruction::encode
    origin,       \* "bytes": the run starts from a stream; "instruction": from a value
    pc,           \* position of the run
    parts,        \* intermediates: the Driver, Option<Registers> and Option<number::Data> in hand
    restored,     \* intermediates: the Driver or Registers decoded from its own encoding
    packed,       \* the Option<Vec<u8>> returned by encode_driver_registers_immediate
    asked,        \* the Result of the last Instruction::destination
    context,      \* the core's registers and flags
    memory,       \* the bytes of the Memory handed to execute
    outcome,      \* the Result of the last execute ("none" before)
    program,      \* the instructions whose encodings are written to one stream
    pending,      \* the instructions of the program not yet encoded
    results       \* the Results of the calls of Instruction::new on that stream, in order

vars == <<field, u, v, r, stream, cursor, instruction, decoded, encoded, origin, pc,
          parts, restored, packed, asked, context, memory, outcome, program, pending, results>>

bitVars == <<field, u, v, r>>
partVars == <<parts, restored, packed>>
coreVars == <<asked, context, memory, outcome>>
programVars == <<program, pending, results>>
codecVars == <<stream, cursor, instruction, decoded, encoded, origin, pc>>

(***************************************************************************)
(* u8 arithmetic: & | ! >> << as Rust computes them on a byte.             *)
(***************************************************************************)
U8 == 0..255

RECURSIVE Pow2(_)
Pow2(n) == IF n = 0 THEN 1 ELSE 2 * Pow2(n - 1)

RECURSIVE AndBits(_, _, _)
AndBits(a, b, n) ==
    IF n = 0 THEN 0
    ELSE (a % 2) * (b % 2) + 2 * AndBits(a \div 2, b \div 2, n - 1)

RECURSIVE OrBits(_, _, _)
OrBits(a, b, n) ==
    IF n = 0 THEN 0
    ELSE (IF (a % 2) + (b % 2) > 0 THEN 1 ELSE 0) + 2 * OrBits(a \div 2, b \div 2, n - 1)

AndTable == [a \in U8 |-> [b \in U8 |-> AndBits(a, b, 8)]]
OrTable == [a \in U8 |-> [b \in U8 |-> OrBits(a, b, 8)]]
BitAnd(a, b) == AndTable[a][b]
BitOr(a, b) == OrTable[a][b]
BitNot(a) == 255 - a
Shr(a, n) == a \div Pow2(n)
Shl(a, n) == (a * Pow2(n)) % 256
BoolAsU8(b) == IF b THEN 1 ELSE 0

(***************************************************************************)
(* Binary processor bit masks.                                             *)
(***************************************************************************)
DRIVER0_EXTENSION_MASK == 252
DRIVER0_SYNCHRONISE_MASK == 2
DRIVER0_DYNAMIC_DESTINATION == 1
DRIVER1_OPERATION_MASK == 240
DRIVER1_ADDRESSING_MASK == 12
DRIVER1_ADDRESSING_PARAMETER_MASK == 3
REGISTERS_WIDTH_MASK == 192
REGISTERS_STATIC_OPERAND_MASK == 56
REGISTERS_DYNAMIC_OPERAND_MASK == 7

(***************************************************************************)
(* impl Driver0Encoding for u8                                             *)
(***************************************************************************)
extract_extension(self) == Shr(BitAnd(DRIVER0_EXTENSION_MASK, self), 2)

set_extension(self, extension) ==
    LET layer == Shl(BitAnd(63, extension), 2)
    IN  BitOr(BitAnd(BitNot(DRIVER0_EXTENSION_MASK), self), layer)

extract_synchronise(self) ==
    LET bit == Shr(BitAnd(DRIVER0_SYNCHRONISE_MASK, self), 1)
    IN  bit = 1

set_synchronise(self, lock) ==
    LET layer == Shl(BoolAsU8(lock), 1)
    IN  BitOr(BitAnd(BitNot(DRIVER0_SYNCHRONISE_MASK), self), layer)

extract_dynamic_destination(self) == BitAnd(DRIVER0_DYNAMIC_DESTINATION, self) = 1

set_dynamic_destination(self, dynamic_destination) ==
    BitOr(BitAnd(BitNot(DRIVER0_DYNAMIC_DESTINATION), self), BoolAsU8(dynamic_destination))

(***************************************************************************)
(* impl Driver1Encoding for u8                                             *)
(***************************************************************************)
extract_operation(self) == Shr(BitAnd(DRIVER1_OPERATION_MASK, self), 4)

set_operation(self, operation) ==
    LET layer == Shl(BitAnd(15, operation), 4)
    IN  BitOr(BitAnd(BitNot(DRIVER1_OPERATION_MASK), self), layer)

extract_addressing_low_bit(self) == Shr(BitAnd(4, self), 2)

extract_addressing(self) == Shr(BitAnd(DRIVER1_ADDRESSING_MASK, self), 2)

set_addressing_wide(self, addressing) ==
    LET layer == Shl(addressing, 2)
    IN  BitOr(BitAnd(BitNot(DRIVER1_ADDRESSING_MASK), self), layer)

set_addressing(self, addressing) ==
    LET layer == Shl(BitAnd(3, addressing), 2)
    IN  BitOr(BitAnd(BitNot(DRIVER1_ADDRESSING_MASK), self), layer)

extract_immediate_exponent(self) == BitAnd(DRIVER1_ADDRESSING_PARAMETER_MASK, self)

set_immediate_exponent(self, immediate_exponent) ==
    LET layer == BitAnd(3, immediate_exponent)
    IN  BitOr(BitAnd(BitNot(DRIVER1_ADDRESSING_PARAMETER_MASK), self), layer)

(***************************************************************************)
(* impl RegistersEncoding for u8                                           *)
(***************************************************************************)
extract_width_shifted_short(self) == Shr(BitAnd(REGISTERS_WIDTH_MASK, self), 5)

extract_width(self) == Shr(BitAnd(REGISTERS_WIDTH_MASK, self), 6)

set_width(self, width) ==
    LET layer == Shl(BitAnd(3, width), 6)
    IN  BitOr(BitAnd(BitNot(REGISTERS_WIDTH_MASK), self), layer)

extract_static(self) == Shr(BitAnd(REGISTERS_STATIC_OPERAND_MASK, self), 3)

set_static_shifted_short(self, x_static) ==
    LET layer == Shl(BitAnd(7, x_static), 2)
    IN  BitOr(BitAnd(BitNot(REGISTERS_STATIC_OPERAND_MASK), self), layer)

set_static(self, x_static) ==
    LET layer == Shl(BitAnd(7, x_static), 3)
    IN  BitOr(BitAnd(BitNot(REGISTERS_STATIC_OPERAND_MASK), self), layer)

extract_dynamic(self) == BitAnd(REGISTERS_DYNAMIC_OPERAND_MASK, self)

set_dynamic(self, dynamic) ==
    LET layer == BitAnd(7, dynamic)
    IN  BitOr(BitAnd(BitNot(REGISTERS_DYNAMIC_OPERAND_MASK), self), layer)

(***************************************************************************)
(* number: the width-tagged integers Size and Data.  A value is kept as    *)
(* its 16-bit limbs, least significant first (a Quad does not fit an       *)
(* integer of the checker).                                                *)
(***************************************************************************)
Sizes == {"Byte", "Word", "Dual", "Quad"}

\* number::Size::from_exponent: Some(size) for 0..3, None otherwise.
SizeFromExponent(e) ==
    CASE e = 0 -> [some |-> TRUE, size |-> "Byte"]
      [] e = 1 -> [some |-> TRUE, size |-> "Word"]
      [] e = 2 -> [some |-> TRUE, size |-> "Dual"]
      [] e = 3 -> [some |-> TRUE, size |-> "Quad"]
      [] OTHER -> [some |-> FALSE, size |-> "Byte"]

\* number::Size::exponent
SizeExponent(size) ==
    CASE size = "Byte" -> 0
      [] size = "Word" -> 1
      [] size = "Dual" -> 2
      [] size = "Quad" -> 3

NoImmediate == [size |-> "None", limbs |-> <<>>]

\* number::Data::exponent
DataExponent(data) == SizeExponent(data.size)

\* number::Data::from_le_bytes: 1, 2, 4 or 8 bytes, little-endian.
DataFromLeBytes(bytes) ==
    LET n == Len(bytes)
        exponent == CASE n = 1 -> 0 [] n = 2 -> 1 [] n = 4 -> 2 [] n = 8 -> 3
    IN  [size  |-> SizeFromExponent(exponent).size,
         limbs |-> IF n = 1 THEN <<bytes[1]>>
                   ELSE [i \in 1..(n \div 2) |-> bytes[2 * i - 1] + 256 * bytes[2 * i]]]

\* number::Data::to_le_bytes
DataToLeBytes(data) ==
    IF data.size = "Byte" THEN <<data.limbs[1] % 256>>
    ELSE [i \in 1..(2 * Len(data.limbs)) |->
             IF i % 2 = 1 THEN data.limbs[(i + 1) \div 2] % 256
             ELSE data.limbs[i \div 2] \div 256]

(***************************************************************************)
(* Driver and Registers intermediates.                                     *)
(***************************************************************************)
\* Driver::new
DriverNew(bytes) ==
    LET driver0 == bytes[1]
        driver1 == bytes[2]
    IN  [extension           |-> extract_extension(driver0),
         operation           |-> extract_operation(driver1),
         synchronise         |-> extract_synchronise(driver0),
         dynamic_destination |-> extract_dynamic_destination(driver0),
         addressing          |-> extract_addressing(driver1),
         immediate_exponent  |-> extract_immediate_exponent(driver1)]

DriverEncodeNoSynchronise(self) ==
    LET driver0 == set_dynamic_destination(set_extension(0, self.extension), self.dynamic_destination)
        driver1 == set_immediate_exponent(
                       set_addressing(set_operation(0, self.operation), self.addressing),
                       self.immediate_exponent)
    IN  <<driver0, driver1>>

\* <Driver as Encodable>::encode
DriverEncode(self) ==
    LET driver0 == set_dynamic_destination(
                       set_synchronise(set_extension(0, self.extension), self.synchronise),
                       self.dynamic_destination)
        driver1 == set_immediate_exponent(
                       set_addressing(set_operation(0, self.operation), self.addressing),
                       self.immediate_exponent)
    IN  <<driver0, driver1>>

RegistersNewSwapped(byte) ==
    [width     |-> extract_width(byte),
     x_static  |-> extract_dynamic(byte),
     x_dynamic |-> extract_static(byte)]

\* Registers::new
RegistersNew(byte) ==
    [width     |-> extract_width(byte),
     x_static  |-> extract_static(byte),
     x_dynamic |-> extract_dynamic(byte)]

RegistersEncodeSwapped(self) ==
    set_dynamic(set_static(set_width(0, self.width), self.x_dynamic), self.x_static)

\* Registers::encode
RegistersEncode(self) ==
    set_dynamic(set_static(set_width(0, self.width), self.x_static), self.x_dynamic)

(***************************************************************************)
(* Operation catalog: Extension::from_codes, Extension::code,              *)
(* Operation::code and Operation::get_presence.  ARITHMETIC_CODE and       *)
(* ADD_CODE are the values the doctest on Instruction::encode encodes;     *)
(* the other rows stand for one operation of each operand presence.        *)
(***************************************************************************)
ARITHMETIC_CODE == 0
ADD_CODE == 0

Catalog ==
    { [name |-> "Add",       extension |-> ARITHMETIC_CODE, operation |-> ADD_CODE, presence |-> "AllPresent"],
      [name |-> "Subtract",  extension |-> ARITHMETIC_CODE, operation |-> 1, presence |-> "AllPresent"],
      [name |-> "StaticOp",  extension |-> ARITHMETIC_CODE, operation |-> 2, presence |-> "Static"],
      [name |-> "DynamicOp", extension |-> ARITHMETIC_CODE, operation |-> 3, presence |-> "Dynamic"],
      [name |-> "PlainOp",   extension |-> ARITHMETIC_CODE, operation |-> 4, presence |-> "None"] }

Extensions == {e.name : e \in Catalog}

Entry(extension) == CHOOSE e \in Catalog : e.name = extension

\* Extension::from_codes: Err(ExtensionFromCodeInvalid) when either code is unassigned.
ExtensionFromCodes(extension, operation) ==
    IF \E e \in Catalog : e.extension = extension /\ e.operation = operation
    THEN [ok |-> TRUE,
          extension |-> (CHOOSE e \in Catalog : e.extension = extension /\ e.operation = operation).name]
    ELSE [ok |-> FALSE, extension |-> "Invalid"]

\* Extension::code
ExtensionCode(extension) == Entry(extension).extension

\* Extension::operation().code()
OperationCode(extension) == Entry(extension).operation

\* Operation::get_presence: None for an operation without operands.
GetPresence(extension) == Entry(extension).presence

(***************************************************************************)
(* Operand model: Dynamic and Operands.                                    *)
(***************************************************************************)
REGISTER_ADDRESSING == 0
MEMORY_REGISTER_ADDRESSING == 1
CONSTANT_ADDRESSING == 2
MEMORY_CONSTANT_ADDRESSING == 3

NoDynamic == [mode |-> "Absent", register |-> 0, immediate |-> NoImmediate]
DynamicRegister(i) == [mode |-> "Register", register |-> i, immediate |-> NoImmediate]
DynamicConstant(imm) == [mode |-> "Constant", register |-> 0, immediate |-> imm]
DynamicMemoryRegister(i) == [mode |-> "MemoryRegister", register |-> i, immediate |-> NoImmediate]
DynamicMemoryConstant(imm) == [mode |-> "MemoryConstant", register |-> 0, immediate |-> imm]

OperandsStatic(s) == [kind |-> "Static", x_static |-> s, x_dynamic |-> NoDynamic]
OperandsDynamic(d) == [kind |-> "Dynamic", x_static |-> 0, x_dynamic |-> d]
OperandsAllPresent(s, d) == [kind |-> "AllPresent", x_static |-> s, x_dynamic |-> d]

\* Operands::x_static: the static register, when the package holds one.
OperandsXStatic(operands) ==
    [some |-> operands.kind \in {"Static", "AllPresent"}, value |-> operands.x_static]

\* Operands::x_dynamic: the dynamic operand, when the package holds one.
OperandsXDynamic(operands) ==
    [some |-> operands.kind \in {"Dynamic", "AllPresent"}, value |-> operands.x_dynamic]

\* Dynamic::register
DynamicRegisterOf(d) ==
    [some |-> d.mode \in {"Register", "MemoryRegister"}, value |-> d.register]

\* Dynamic::immediate
DynamicImmediateOf(d) ==
    [some |-> d.mode \in {"Constant", "MemoryConstant"}, value |-> d.immediate]

\* Dynamic::addressing
DynamicAddressing(d) ==
    CASE d.mode = "Register"       -> REGISTER_ADDRESSING
      [] d.mode = "MemoryRegister" -> MEMORY_REGISTER_ADDRESSING
      [] d.mode = "Constant"       -> CONSTANT_ADDRESSING
      [] d.mode = "MemoryConstant" -> MEMORY_CONSTANT_ADDRESSING

(***************************************************************************)
(* The reader: std::io::Read over a Cursor.  A read of n bytes returns the *)
(* bytes that are left, at most n, and moves the cursor past them.         *)
(***************************************************************************)
Min(a, b) == IF a < b THEN a ELSE b

StreamReadToEnd(bytes, at, n) ==
    LET stop == Min(at + n, Len(bytes))
    IN  [bytes |-> SubSeq(bytes, at + 1, stop), cursor |-> Len(bytes)]

StreamRead(bytes, at, n) ==
    LET stop == Min(at + n, Len(bytes))
    IN  [bytes |-> SubSeq(bytes, at + 1, stop), cursor |-> stop]

\* A buffer [0u8; n] after a read: the bytes read, the rest still zero.
Buffer(read, n) == [i \in 1..n |-> IF i <= Len(read.bytes) THEN read.bytes[i] ELSE 0]

\* Dynamic::new: the dynamic operand for the driver's addressing mode and the
\* registers byte; the immediate, 2^immediate_exponent bytes, is read only for
\* the two modes that carry one, and a short read fails with Length.
DynamicNew(bytes, at, registers, driver) ==
    LET n    == Pow2(driver.immediate_exponent)
        read == StreamRead(bytes, at, n)
    IN  CASE driver.addressing = REGISTER_ADDRESSING ->
               [ok |-> TRUE, error |-> <<>>, value |-> DynamicRegister(registers.x_dynamic), cursor |-> at]
          [] driver.addressing = MEMORY_REGISTER_ADDRESSING ->
               [ok |-> TRUE, error |-> <<>>, value |-> DynamicMemoryRegister(registers.x_dynamic), cursor |-> at]
          [] driver.addressing = CONSTANT_ADDRESSING ->
               IF Len(read.bytes) # n
               THEN [ok |-> FALSE, error |-> <<"Length">>, value |-> NoDynamic, cursor |-> read.cursor]
               ELSE [ok |-> TRUE, error |-> <<>>, value |-> DynamicConstant(DataFromLeBytes(read.bytes)), cursor |-> read.cursor]
          [] driver.addressing = MEMORY_CONSTANT_ADDRESSING ->
               IF Len(read.bytes) # n
               THEN [ok |-> FALSE, error |-> <<"Length">>, value |-> NoDynamic, cursor |-> read.cursor]
               ELSE [ok |-> TRUE, error |-> <<>>, value |-> DynamicMemoryConstant(DataFromLeBytes(read.bytes)), cursor |-> read.cursor]

NoOperands == [kind |-> "None", x_static |-> 0, x_dynamic |-> NoDynamic]

\* Operands::new: the package the operation's presence selects.
OperandsNew(bytes, at, presence, registers, driver) ==
    LET dynamic == DynamicNew(bytes, at, registers, driver)
    IN  CASE presence = "Static" ->
               [ok |-> TRUE, error |-> <<>>, value |-> OperandsStatic(registers.x_static), cursor |-> at]
          [] presence = "Dynamic" ->
               IF dynamic.ok
               THEN [ok |-> TRUE, error |-> <<>>, value |-> OperandsDynamic(dynamic.value), cursor |-> dynamic.cursor]
               ELSE [ok |-> FALSE, error |-> dynamic.error, value |-> NoOperands, cursor |-> dynamic.cursor]
          [] presence = "AllPresent" ->
               IF dynamic.ok
               THEN [ok |-> TRUE, error |-> <<>>,
                     value |-> OperandsAllPresent(registers.x_static, dynamic.value), cursor |-> dynamic.cursor]
               ELSE [ok |-> FALSE, error |-> dynamic.error, value |-> NoOperands, cursor |-> dynamic.cursor]

(***************************************************************************)
(* Data::new                                                               *)
(***************************************************************************)
NoData == [width |-> "Byte", destination |-> "Static", synchronous |-> FALSE, operands |-> NoOperands]

DestinationOfInverted(driver) == IF driver.dynamic_destination THEN "Static" ELSE "Dynamic"

\* let destination = if driver.dynamic_destination { Dynamic } else { Static }
DestinationOf(driver) == IF driver.dynamic_destination THEN "Dynamic" ELSE "Static"

DestinationRejectedNever(destination, operands) == FALSE

\* The guard in front of Err(DataConstructError::Destination).
DestinationRejected(destination, operands) ==
    /\ OperandsXDynamic(operands).some
    /\ destination = "Dynamic"
    /\ OperandsXDynamic(operands).value.mode = "Constant"

ShortReadOnlyWhenEmpty(read, n) == Len(read.bytes) = 0

\* length != buffer.len()
ShortRead(read, n) == Len(read.bytes) # n

ReadRegistersByteWide(bytes, at) ==
    LET read == StreamRead(bytes, at, 2)
    IN  [buffer |-> Buffer(read, 2), cursor |-> read.cursor, short |-> ShortRead(read, 2)]

\* let mut data_encoded = [0u8; 1]; stream.read(&mut data_encoded)
ReadRegistersByte(bytes, at) ==
    LET read == StreamRead(bytes, at, 1)
    IN  [buffer |-> Buffer(read, 1), cursor |-> read.cursor, short |-> ShortRead(read, 1)]

\* let mut encoded_driver = [0u8; 2]; stream.read(&mut encoded_driver)
ReadDriverBytes(bytes, at) ==
    LET read == StreamRead(bytes, at, 2)
    IN  [buffer |-> Buffer(read, 2), cursor |-> read.cursor, short |-> ShortRead(read, 2)]

DataNewDestinationFirst(bytes, at, presence, driver) ==
    LET read        == ReadRegistersByte(bytes, at)
        registers   == RegistersNew(read.buffer[1])
        destination == DestinationOf(driver)
        operands    == OperandsNew(bytes, read.cursor, presence, registers, driver)
        width       == SizeFromExponent(registers.width)
    IN  IF read.short
        THEN [tag |-> "err", error |-> <<"Length">>, value |-> NoData, cursor |-> read.cursor]
        ELSE IF /\ presence \in {"Dynamic", "AllPresent"}
                /\ destination = "Dynamic"
                /\ driver.addressing = CONSTANT_ADDRESSING
        THEN [tag |-> "err", error |-> <<"Destination">>, value |-> NoData, cursor |-> read.cursor]
        ELSE IF ~operands.ok
        THEN [tag |-> "err", error |-> <<"Operands">> \o operands.error, value |-> NoData,
              cursor |-> operands.cursor]
        ELSE IF ~width.some
        THEN [tag |-> "panic", error |-> <<>>, value |-> NoData, cursor |-> operands.cursor]
        ELSE [tag    |-> "ok",
              error  |-> <<>>,
              value  |-> [width       |-> width.size,
                          destination |-> destination,
                          synchronous |-> driver.synchronise,
                          operands    |-> operands.value],
              cursor |-> operands.cursor]

\* Data::new
DataNew(bytes, at, presence, driver) ==
    LET read        == ReadRegistersByte(bytes, at)
        registers   == RegistersNew(read.buffer[1])
        destination == DestinationOf(driver)
        operands    == OperandsNew(bytes, read.cursor, presence, registers, driver)
        width       == SizeFromExponent(registers.width)
    IN  IF read.short
        THEN [tag |-> "err", error |-> <<"Length">>, value |-> NoData, cursor |-> read.cursor]
        ELSE IF ~operands.ok
        THEN [tag |-> "err", error |-> <<"Operands">> \o operands.error, value |-> NoData,
              cursor |-> operands.cursor]
        ELSE IF DestinationRejected(destination, operands.value)
        THEN [tag |-> "err", error |-> <<"Destination">>, value |-> NoData, cursor |-> operands.cursor]
        ELSE IF ~width.some
        THEN [tag |-> "panic", error |-> <<>>, value |-> NoData, cursor |-> operands.cursor]
        ELSE [tag    |-> "ok",
              error  |-> <<>>,
              value  |-> [width       |-> width.size,
                          destination |-> destination,
                          synchronous |-> driver.synchronise,
                          operands    |-> operands.value],
              cursor |-> operands.cursor]

(***************************************************************************)
(* Instruction::new                                                        *)
(***************************************************************************)
NoInstruction == [extension |-> "Invalid", has_data |-> FALSE, data |-> NoData]

InstructionDataAlways(bytes, at, extension, driver) ==
    LET data == DataNew(bytes, at,
                        IF GetPresence(extension) = "None" THEN "Static" ELSE GetPresence(extension),
                        driver)
    IN  IF data.tag = "ok"
        THEN [tag |-> "ok", error |-> <<>>,
              value |-> [extension |-> extension, has_data |-> TRUE, data |-> data.value],
              cursor |-> data.cursor]
        ELSE [tag |-> data.tag, error |-> <<"Data">> \o data.error, value |-> NoInstruction,
              cursor |-> data.cursor]

\* The part of Instruction::new after the lookup: decode the data bytes when
\* the operation has operands, and construct the instruction.
InstructionData(bytes, at, extension, driver) ==
    LET presence == GetPresence(extension)
        data     == DataNew(bytes, at, presence, driver)
    IN  IF presence # "None"
        THEN IF data.tag = "ok"
             THEN [tag |-> "ok", error |-> <<>>,
                   value |-> [extension |-> extension, has_data |-> TRUE, data |-> data.value],
                   cursor |-> data.cursor]
             ELSE [tag |-> data.tag, error |-> IF data.tag = "err" THEN <<"Data">> \o data.error ELSE <<>>,
                   value |-> NoInstruction, cursor |-> data.cursor]
        ELSE [tag |-> "ok", error |-> <<>>,
              value |-> [extension |-> extension, has_data |-> FALSE, data |-> NoData],
              cursor |-> at]

InstructionNewLookupLate(bytes, at) ==
    LET read      == ReadDriverBytes(bytes, at)
        driver    == DriverNew(read.buffer)
        extension == ExtensionFromCodes(driver.extension, driver.operation)
        registers == ReadRegistersByte(bytes, read.cursor)
    IN  IF read.short
        THEN [tag |-> "err", error |-> <<"Length">>, value |-> NoInstruction, cursor |-> read.cursor]
        ELSE IF registers.short
        THEN [tag |-> "err", error |-> <<"Data", "Length">>, value |-> NoInstruction,
              cursor |-> registers.cursor]
        ELSE IF ~extension.ok
        THEN [tag |-> "err", error |-> <<"InvalidCode">>, value |-> NoInstruction,
              cursor |-> registers.cursor]
        ELSE InstructionData(bytes, read.cursor, extension.extension, driver)

InstructionNew(bytes, at) ==
    LET read      == ReadDriverBytes(bytes, at)
        driver    == DriverNew(read.buffer)
        extension == ExtensionFromCodes(driver.extension, driver.operation)
    IN  IF read.short
        THEN [tag |-> "err", error |-> <<"Length">>, value |-> NoInstruction, cursor |-> read.cursor]
        ELSE IF ~extension.ok
        THEN [tag |-> "err", error |-> <<"InvalidCode">>, value |-> NoInstruction, cursor |-> read.cursor]
        ELSE InstructionData(bytes, read.cursor, extension.extension, driver)

(***************************************************************************)
(* Instruction::encode                                                     *)
(***************************************************************************)
None == [some |-> FALSE, value |-> 0]
Some(x) == [some |-> TRUE, value |-> x]

\* Option::unwrap_or
UnwrapOr(option, default) == IF option.some THEN option.value ELSE default

EncodeDriverRegistersImmediateFirst(driver, registers, immediate) ==
    LET bytes == DriverEncode(driver)
    IN  IF registers.some
        THEN Some(bytes \o (IF immediate.some THEN DataToLeBytes(immediate.value) ELSE <<>>)
                  \o <<RegistersEncode(registers.value)>>)
        ELSE IF immediate.some THEN None
        ELSE Some(bytes)

\* Instruction::encode_driver_registers_immediate: None when an immediate is
\* given without registers.
EncodeDriverRegistersImmediate(driver, registers, immediate) ==
    LET bytes == DriverEncode(driver)
    IN  IF registers.some
        THEN Some(bytes \o <<RegistersEncode(registers.value)>>
                  \o (IF immediate.some THEN DataToLeBytes(immediate.value) ELSE <<>>))
        ELSE IF immediate.some THEN None
        ELSE Some(bytes)

InstructionEncodeWidthAsExponent(self) ==
    LET data      == self.data
        x_dynamic == OperandsXDynamic(data.operands)
        synchronise         == IF self.has_data THEN data.synchronous ELSE FALSE
        dynamic_destination == IF self.has_data THEN data.destination = "Dynamic" ELSE FALSE
        x_dynamic_code      == IF self.has_data /\ x_dynamic.some
                               THEN UnwrapOr(DynamicRegisterOf(x_dynamic.value), 0) ELSE 0
        immediate           == IF self.has_data /\ x_dynamic.some /\ DynamicImmediateOf(x_dynamic.value).some
                               THEN Some(DynamicImmediateOf(x_dynamic.value).value) ELSE None
        immediate_exponent  == IF immediate.some THEN DataExponent(immediate.value)
                               ELSE IF self.has_data THEN SizeExponent(data.width) ELSE 0
        addressing          == IF self.has_data /\ x_dynamic.some
                               THEN DynamicAddressing(x_dynamic.value) ELSE 0
        registers == IF self.has_data
                     THEN Some([width     |-> SizeExponent(data.width),
                                x_static  |-> UnwrapOr(OperandsXStatic(data.operands), 0),
                                x_dynamic |-> x_dynamic_code])
                     ELSE None
        driver    == [extension           |-> ExtensionCode(self.extension),
                      operation           |-> OperationCode(self.extension),
                      synchronise         |-> synchronise,
                      dynamic_destination |-> dynamic_destination,
                      addressing          |-> addressing,
                      immediate_exponent  |-> immediate_exponent]
    IN  EncodeDriverRegistersImmediate(driver, registers, immediate).value

\* Instruction::encode
InstructionEncode(self) ==
    LET data      == self.data
        x_dynamic == OperandsXDynamic(data.operands)
        synchronise         == IF self.has_data THEN data.synchronous ELSE FALSE
        dynamic_destination == IF self.has_data THEN data.destination = "Dynamic" ELSE FALSE
        x_dynamic_code      == IF self.has_data /\ x_dynamic.some
                               THEN UnwrapOr(DynamicRegisterOf(x_dynamic.value), 0) ELSE 0
        immediate           == IF self.has_data /\ x_dynamic.some /\ DynamicImmediateOf(x_dynamic.value).some
                               THEN Some(DynamicImmediateOf(x_dynamic.value).value) ELSE None
        immediate_exponent  == IF immediate.some THEN DataExponent(immediate.value) ELSE 0
        addressing          == IF self.has_data /\ x_dynamic.some
                               THEN DynamicAddressing(x_dynamic.value) ELSE 0
        registers == IF self.has_data
                     THEN Some([width     |-> SizeExponent(data.width),
                                x_static  |-> UnwrapOr(OperandsXStatic(data.operands), 0),
                                x_dynamic |-> x_dynamic_code])
                     ELSE None
        driver    == [extension           |-> ExtensionCode(self.extension),
                      operation           |-> OperationCode(self.extension),
                      synchronise         |-> synchronise,
                      dynamic_destination |-> dynamic_destination,
                      addressing          |-> addressing,
                      immediate_exponent  |-> immediate_exponent]
    IN  EncodeDriverRegistersImmediate(driver, registers, immediate).value

(***************************************************************************)
(* Instruction::destination                                                *)
(***************************************************************************)
OperandStatic(x_static) == [kind |-> "Static", x_static |-> x_static, x_dynamic |-> NoDynamic]
OperandDynamic(x_dynamic) == [kind |-> "Dynamic", x_static |-> 0, x_dynamic |-> x_dynamic]
NoOperand == [kind |-> "None", x_static |-> 0, x_dynamic |-> NoDynamic]

DestinationOk(operand) == [tag |-> "ok", error |-> "", operand |-> operand]
DestinationErr(error) == [tag |-> "err", error |-> error, operand |-> NoOperand]

InstructionDestinationCrossed(self) ==
    LET data == self.data
    IN  IF ~self.has_data THEN DestinationErr("Data")
        ELSE IF data.destination = "Static"
        THEN IF OperandsXDynamic(data.operands).some
             THEN DestinationOk(OperandDynamic(OperandsXDynamic(data.operands).value))
             ELSE DestinationErr("Static")
        ELSE IF OperandsXStatic(data.operands).some
             THEN DestinationOk(OperandStatic(OperandsXStatic(data.operands).value))
             ELSE DestinationErr("Dynamic")

InstructionDestinationAlwaysStatic(self) ==
    LET data == self.data
    IN  IF ~self.has_data THEN DestinationErr("Data")
        ELSE IF OperandsXStatic(data.operands).some
        THEN DestinationOk(OperandStatic(OperandsXStatic(data.operands).value))
        ELSE DestinationErr("Static")

InstructionDestination(self) ==
    LET data == self.data
    IN  IF ~self.has_data THEN DestinationErr("Data")
        ELSE IF data.destination = "Static"
        THEN IF OperandsXStatic(data.operands).some
             THEN DestinationOk(OperandStatic(OperandsXStatic(data.operands).value))
             ELSE DestinationErr("Static")
        ELSE IF OperandsXDynamic(data.operands).some
             THEN DestinationOk(OperandDynamic(OperandsXDynamic(data.operands).value))
             ELSE DestinationErr("Dynamic")

(***************************************************************************)
(* The execution core: Core::execute on a Memory.  Values are modelled at  *)
(* the widths Byte and Word.                                               *)
(***************************************************************************)
\* Memory::from(vec![10u8; 50])
MemorySize == 50

RegisterCount == 8
NoFlags == [zero |-> FALSE, carry |-> FALSE, overflow |-> FALSE, negative |-> FALSE]

\* Core::default()
DefaultContext == [registers |-> [i \in 0..(RegisterCount - 1) |-> 0], flags |-> NoFlags]

WidthBytes(size) == Pow2(SizeExponent(size))
Modulus(size) == Pow2(8 * WidthBytes(size))

\* The value of an immediate of one or two bytes.
ImmediateValue(imm) == imm.limbs[1]

\* A register read at a width: the low bytes of the register.
RegisterRead(registers, i, size) == registers[i] % Modulus(size)

\* A register write at a width: the low bytes are the value, the rest zero.
RegisterWrite(registers, i, size, value) == [registers EXCEPT ![i] = value % Modulus(size)]

\* Memory::read(addr, width): little-endian, out of range is an error.
MemoryRead(bytes, address, size) ==
    IF address + WidthBytes(size) > Len(bytes)
    THEN [ok |-> FALSE, value |-> 0]
    ELSE [ok |-> TRUE,
          value |-> IF size = "Byte" THEN bytes[address + 1]
                    ELSE bytes[address + 1] + 256 * bytes[address + 2]]

\* Memory::write(addr, data): little-endian, out of range is an error.
MemoryWrite(bytes, address, size, value) ==
    IF address + WidthBytes(size) > Len(bytes)
    THEN [ok |-> FALSE, bytes |-> bytes]
    ELSE [ok |-> TRUE,
          bytes |-> [i \in 1..Len(bytes) |->
                        IF i = address + 1 THEN value % 256
                        ELSE IF size = "Word" /\ i = address + 2 THEN (value \div 256) % 256
                        ELSE bytes[i]]]

\* Operand fetch: the value of the dynamic operand at the data width.
FetchDynamic(registers, bytes, dynamic, size) ==
    CASE dynamic.mode = "Register" ->
           [ok |-> TRUE, error |-> "", value |-> RegisterRead(registers, dynamic.register, size)]
      [] dynamic.mode = "Constant" ->
           IF dynamic.immediate.size = size
           THEN [ok |-> TRUE, error |-> "", value |-> ImmediateValue(dynamic.immediate)]
           ELSE [ok |-> FALSE, error |-> "WidthMismatch", value |-> 0]
      [] dynamic.mode = "MemoryRegister" ->
           LET read == MemoryRead(bytes, registers[dynamic.register], size)
           IN  [ok |-> read.ok, error |-> IF read.ok THEN "" ELSE "MemoryRange", value |-> read.value]
      [] dynamic.mode = "MemoryConstant" ->
           LET read == MemoryRead(bytes, ImmediateValue(dynamic.immediate), size)
           IN  [ok |-> read.ok, error |-> IF read.ok THEN "" ELSE "MemoryRange", value |-> read.value]

Negative(value, size) == value >= Modulus(size) \div 2

\* Add: r = a + b mod 2^(8w), a the static and b the dynamic operand, with
\* Carry (unsigned overflow), Overflow (signed), Zero and Negative.
ArithmeticAdd(a, b, size) ==
    LET result == (a + b) % Modulus(size)
    IN  [result |-> result,
         flags  |-> [zero     |-> result = 0,
                     carry    |-> a + b >= Modulus(size),
                     overflow |-> /\ Negative(a, size) = Negative(b, size)
                                  /\ Negative(result, size) # Negative(a, size),
                     negative |-> Negative(result, size)]]

\* Sub: r = a - b mod 2^(8w), flags as Add with borrow.
ArithmeticSubtract(a, b, size) ==
    LET result == (a - b + Modulus(size)) % Modulus(size)
    IN  [result |-> result,
         flags  |-> [zero     |-> result = 0,
                     carry    |-> a < b,
                     overflow |-> /\ Negative(a, size) # Negative(b, size)
                                  /\ Negative(result, size) # Negative(a, size),
                     negative |-> Negative(result, size)]]

Failed(error, core, bytes) == [outcome |-> error, context |-> core, memory |-> bytes]

\* Core::execute(instruction, memory, ports): fetch both operands at the data
\* width, compute, find the destination with Instruction::destination, write
\* the result and the flags; a failure leaves registers, flags and memory alone.
CoreExecute(self, core, bytes) ==
    LET data        == self.data
        size        == data.width
        a           == RegisterRead(core.registers, data.operands.x_static, size)
        fetched     == FetchDynamic(core.registers, bytes, data.operands.x_dynamic, size)
        computed    == IF self.extension = "Add" THEN ArithmeticAdd(a, fetched.value, size)
                       ELSE ArithmeticSubtract(a, fetched.value, size)
        destination == InstructionDestination(self)
        target      == destination.operand
        address     == IF target.x_dynamic.mode = "MemoryRegister"
                       THEN core.registers[target.x_dynamic.register]
                       ELSE ImmediateValue(target.x_dynamic.immediate)
        written     == MemoryWrite(bytes, address, size, computed.result)
    IN  IF ~self.has_data THEN [outcome |-> "ok", context |-> core, memory |-> bytes]
        ELSE IF ~fetched.ok THEN Failed(fetched.error, core, bytes)
        ELSE IF destination.tag = "err" THEN Failed(destination.error, core, bytes)
        ELSE IF target.kind = "Static"
        THEN [outcome |-> "ok",
              context |-> [registers |-> RegisterWrite(core.registers, target.x_static, size, computed.result),
                           flags     |-> computed.flags],
              memory  |-> bytes]
        ELSE IF target.x_dynamic.mode = "Register"
        THEN [outcome |-> "ok",
              context |-> [registers |-> RegisterWrite(core.registers, target.x_dynamic.register, size,
                                                       computed.result),
                           flags     |-> computed.flags],
              memory  |-> bytes]
        ELSE IF target.x_dynamic.mode = "Constant" THEN Failed("Destination", core, bytes)
        ELSE IF ~written.ok THEN Failed("MemoryRange", core, bytes)
        ELSE [outcome |-> "ok",
              context |-> [registers |-> core.registers, flags |-> computed.flags],
              memory  |-> written.bytes]

(***************************************************************************)
(* Inputs.  A stream is a prefix of two driver bytes, a registers byte and *)
(* a tail; an Instruction is any value the public fields allow.            *)
(***************************************************************************)
MaxTrailing == 1

OperationCodes == {ADD_CODE, 2, 3, 4, 15}
DriverPairs ==
    { <<4 * ARITHMETIC_CODE + k, 16 * o + a>> : k \in 0..3, o \in OperationCodes, a \in 0..15 }
    \cup { <<4 * 63 + k, 16 * o + 6>> : k \in {0, 3}, o \in {ADD_CODE, 15} }
RegistersBytes == {64 * w + 8 * s + d : w \in 0..3, s \in {0, 5}, d \in {0, 3}}
ImmediateBytes == <<10, 255, 0, 128, 4, 5, 6, 254>>

Trailing(n) == [i \in 1..n |-> 170]

Streams ==
    { SubSeq(d \o <<g>> \o ImmediateBytes \o Trailing(MaxTrailing), 1, n) :
        d \in DriverPairs, g \in RegistersBytes, n \in 0..(11 + MaxTrailing) }

Limbs == {1, 65535}
Immediates ==
    { [size |-> "Byte", limbs |-> <<b>>] : b \in {10, 255} }
    \cup { [size |-> "Word", limbs |-> <<a>>] : a \in Limbs }
    \cup { [size |-> "Dual", limbs |-> <<a, b>>] : a \in Limbs, b \in Limbs }
    \cup { [size |-> "Quad", limbs |-> <<a, b, c, d>>] : a \in Limbs, b \in Limbs, c \in {0}, d \in Limbs }
RegisterIndices == {0, 2, 7}
Dynamics ==
    { DynamicRegister(i) : i \in RegisterIndices }
    \cup { DynamicMemoryRegister(i) : i \in RegisterIndices }
    \cup { DynamicConstant(imm) : imm \in Immediates }
    \cup { DynamicMemoryConstant(imm) : imm \in Immediates }
OperandPackages ==
    { OperandsStatic(s) : s \in RegisterIndices }
    \cup { OperandsDynamic(d) : d \in Dynamics }
    \cup { OperandsAllPresent(s, d) : s \in RegisterIndices, d \in Dynamics }
Datas ==
    [width : Sizes, destination : {"Static", "Dynamic"}, synchronous : BOOLEAN,
     operands : OperandPackages]
Instructions ==
    { [extension |-> e, has_data |-> FALSE, data |-> NoData] : e \in Extensions }
    \cup { [extension |-> e, has_data |-> TRUE, data |-> d] : e \in Extensions, d \in Datas }

NoResult == [tag |-> "none", error |-> <<>>, value |-> NoInstruction]

(***************************************************************************)
(* The codec: Instruction::new on a stream, Instruction::encode on an      *)
(* instruction, and a reader opened on the encoded bytes.                  *)
(***************************************************************************)
InitBits == field = "none" /\ u = 0 /\ v = 0 /\ r = 0

NoParts == [driver |-> None, registers |-> None, immediate |-> None]
InitPartsIdle == parts = NoParts /\ restored = None /\ packed = None

NoAnswer == [tag |-> "none", error |-> "", operand |-> NoOperand]
InitCoreIdle == asked = NoAnswer /\ context = DefaultContext /\ memory = <<>> /\ outcome = "none"

InitProgramIdle == program = <<>> /\ pending = <<>> /\ results = <<>>

InitFromBytes ==
    /\ stream \in Streams
    /\ cursor = 0
    /\ instruction = NoInstruction
    /\ decoded = NoResult
    /\ encoded = <<>>
    /\ origin = "bytes"
    /\ pc = "ready"

InitFromInstruction ==
    /\ stream = <<>>
    /\ cursor = 0
    /\ instruction \in Instructions
    /\ decoded = NoResult
    /\ encoded = <<>>
    /\ origin = "instruction"
    /\ pc = "built"

Init == InitBits /\ InitPartsIdle /\ InitCoreIdle /\ InitProgramIdle /\ (InitFromBytes \/ InitFromInstruction)

\* Instruction::new(&mut stream)
Decode ==
    /\ pc = "ready"
    /\ \E result \in {InstructionNew(stream, cursor)} :
           /\ decoded' = [tag |-> result.tag, error |-> result.error, value |-> result.value]
           /\ cursor' = result.cursor
    /\ pc' = "decoded"
    /\ UNCHANGED <<stream, instruction, encoded, origin, bitVars, partVars, coreVars, programVars>>

\* instruction.encode(), on the constructed instruction or on the decoded one
Encode ==
    /\ \/ pc = "built"
       \/ pc = "decoded" /\ decoded.tag = "ok"
    /\ encoded' = InstructionEncode(IF pc = "built" THEN instruction ELSE decoded.value)
    /\ pc' = IF pc = "built" THEN "encoded" ELSE "done"
    /\ UNCHANGED <<stream, cursor, instruction, decoded, origin, bitVars, partVars, coreVars, programVars>>

\* Cursor::new(encoded)
Feed ==
    /\ pc = "encoded"
    /\ stream' = encoded
    /\ cursor' = 0
    /\ pc' = "ready"
    /\ UNCHANGED <<instruction, decoded, encoded, origin, bitVars, partVars, coreVars, programVars>>

Next == Decode \/ Encode \/ Feed

Spec == Init /\ [][Next]_vars

(***************************************************************************)
(* The bitfield codec on its own: one setter applied to a byte u with an   *)
(* input v.                                                                *)
(***************************************************************************)
InitCodecIdle ==
    /\ stream = <<>>
    /\ cursor = 0
    /\ instruction = NoInstruction
    /\ decoded = NoResult
    /\ encoded = <<>>
    /\ origin = "bits"
    /\ pc = "bits"

InitSetters == field = "none" /\ u \in U8 /\ v \in U8 /\ r = 0 /\ InitCodecIdle /\ InitPartsIdle /\ InitCoreIdle /\ InitProgramIdle

Applied(name, byte) ==
    /\ field = "none"
    /\ field' = name
    /\ r' = byte
    /\ UNCHANGED <<u, v, codecVars, partVars, coreVars, programVars>>

SetExtension == Applied("extension", set_extension(u, v))
SetSynchronise == v <= 1 /\ Applied("synchronise", set_synchronise(u, v = 1))
SetDynamicDestination == v <= 1 /\ Applied("dynamic_destination", set_dynamic_destination(u, v = 1))
SetOperation == Applied("operation", set_operation(u, v))
SetAddressing == Applied("addressing", set_addressing(u, v))
SetImmediateExponent == Applied("immediate_exponent", set_immediate_exponent(u, v))
SetWidth == Applied("width", set_width(u, v))
SetStatic == Applied("x_static", set_static(u, v))
SetDynamic == Applied("x_dynamic", set_dynamic(u, v))

NextSetters ==
    \/ SetExtension
    \/ SetSynchronise
    \/ SetDynamicDestination
    \/ SetOperation
    \/ SetAddressing
    \/ SetImmediateExponent
    \/ SetWidth
    \/ SetStatic
    \/ SetDynamic

SpecBits == InitSetters /\ [][NextSetters]_vars

(***************************************************************************)
(* The intermediates on their own: Driver::new and Driver::encode,         *)
(* Registers::new and Registers::encode, each from the bytes and from the  *)
(* structure, and encode_driver_registers_immediate on the three parts.    *)
(***************************************************************************)
\* Every Driver within the field widths, and values one past them and at the
\* top of the u8 each field is stored in.
DriverValues ==
    [extension : 0..63 \cup {64, 255}, operation : 0..15 \cup {16},
     synchronise : BOOLEAN, dynamic_destination : BOOLEAN,
     addressing : 0..3 \cup {4}, immediate_exponent : 0..3 \cup {7}]

RegistersValues == [width : 0..3 \cup {4}, x_static : 0..7 \cup {8}, x_dynamic : 0..7 \cup {9}]

DriverWithinWidths(d) ==
    d.extension < 64 /\ d.operation < 16 /\ d.addressing < 4 /\ d.immediate_exponent < 4

RegistersWithinWidths(g) == g.width < 4 /\ g.x_static < 8 /\ g.x_dynamic < 8

\* The driver and the registers of the doctest on Instruction::encode.
DoctestDriver ==
    [extension |-> ARITHMETIC_CODE, operation |-> ADD_CODE, synchronise |-> TRUE,
     dynamic_destination |-> FALSE, addressing |-> CONSTANT_ADDRESSING, immediate_exponent |-> 0]
DoctestRegisters == [width |-> 0, x_static |-> 1, x_dynamic |-> 0]

PackInputs ==
    [driver    : {Some(DoctestDriver),
                  Some([extension |-> 10, operation |-> 14, synchronise |-> FALSE,
                        dynamic_destination |-> TRUE, addressing |-> 3, immediate_exponent |-> 2])},
     registers : {None, Some(DoctestRegisters), Some([width |-> 3, x_static |-> 3, x_dynamic |-> 7])},
     immediate : {None} \cup {Some(imm) : imm \in Immediates}]

InitPartsCodec ==
    /\ cursor = 0
    /\ instruction = NoInstruction
    /\ decoded = NoResult
    /\ encoded = <<>>
    /\ restored = None
    /\ packed = None

InitParts ==
    /\ InitBits
    /\ InitCoreIdle
    /\ InitProgramIdle
    /\ InitPartsCodec
    /\ \/ /\ origin = "driver bytes" /\ pc = "ready"
          /\ stream \in {<<a, b>> : a \in U8, b \in U8}
          /\ parts = NoParts
       \/ /\ origin = "registers byte" /\ pc = "ready"
          /\ stream \in {<<a>> : a \in U8}
          /\ parts = NoParts
       \/ /\ origin = "driver" /\ pc = "built"
          /\ stream = <<>>
          /\ parts \in {[NoParts EXCEPT !.driver = Some(d)] : d \in DriverValues}
       \/ /\ origin = "registers" /\ pc = "built"
          /\ stream = <<>>
          /\ parts \in {[NoParts EXCEPT !.registers = Some(g)] : g \in RegistersValues}
       \/ /\ origin = "parts" /\ pc = "built"
          /\ stream = <<>>
          /\ parts \in PackInputs

\* Driver::new(bytes)
DriverDecode ==
    /\ origin = "driver bytes" /\ pc = "ready"
    /\ parts' = [parts EXCEPT !.driver = Some(DriverNew(stream))]
    /\ pc' = "decoded"
    /\ UNCHANGED <<stream, cursor, instruction, decoded, encoded, origin, restored, packed, bitVars, coreVars, programVars>>

\* driver.encode(), on the given Driver or on the decoded one
DriverEncodeBytes ==
    /\ origin \in {"driver bytes", "driver"} /\ pc \in {"decoded", "built"}
    /\ encoded' = DriverEncode(parts.driver.value)
    /\ pc' = IF pc = "decoded" THEN "done" ELSE "encoded"
    /\ UNCHANGED <<stream, cursor, instruction, decoded, origin, partVars, bitVars, coreVars, programVars>>

\* Driver::new(driver.encode())
DriverRestore ==
    /\ origin = "driver" /\ pc = "encoded"
    /\ restored' = Some(DriverNew(encoded))
    /\ pc' = "restored"
    /\ UNCHANGED <<stream, cursor, instruction, decoded, encoded, origin, parts, packed, bitVars, coreVars, programVars>>

\* Registers::new(encoded)
RegistersDecode ==
    /\ origin = "registers byte" /\ pc = "ready"
    /\ parts' = [parts EXCEPT !.registers = Some(RegistersNew(stream[1]))]
    /\ pc' = "decoded"
    /\ UNCHANGED <<stream, cursor, instruction, decoded, encoded, origin, restored, packed, bitVars, coreVars, programVars>>

\* registers.encode(), on the given Registers or on the decoded one
RegistersEncodeByte ==
    /\ origin \in {"registers byte", "registers"} /\ pc \in {"decoded", "built"}
    /\ encoded' = <<RegistersEncode(parts.registers.value)>>
    /\ pc' = IF pc = "decoded" THEN "done" ELSE "encoded"
    /\ UNCHANGED <<stream, cursor, instruction, decoded, origin, partVars, bitVars, coreVars, programVars>>

\* Registers::new(registers.encode())
RegistersRestore ==
    /\ origin = "registers" /\ pc = "encoded"
    /\ restored' = Some(RegistersNew(encoded[1]))
    /\ pc' = "restored"
    /\ UNCHANGED <<stream, cursor, instruction, decoded, encoded, origin, parts, packed, bitVars, coreVars, programVars>>

\* Instruction::encode_driver_registers_immediate(&mut driver, registers, immediate)
PackParts ==
    /\ origin = "parts" /\ pc = "built"
    /\ packed' = EncodeDriverRegistersImmediate(parts.driver.value, parts.registers, parts.immediate)
    /\ pc' = "packed"
    /\ UNCHANGED <<stream, cursor, instruction, decoded, encoded, origin, parts, restored, bitVars, coreVars, programVars>>

NextParts ==
    \/ DriverDecode
    \/ DriverEncodeBytes
    \/ DriverRestore
    \/ RegistersDecode
    \/ RegistersEncodeByte
    \/ RegistersRestore
    \/ PackParts

SpecParts == InitParts /\ [][NextParts]_vars

(***************************************************************************)
(* The core: Instruction::destination on an instruction, and execute on an *)
(* instruction, a core and a memory.                                       *)
(***************************************************************************)
ExecuteImmediates ==
    { [size |-> "Byte", limbs |-> <<10>>], [size |-> "Byte", limbs |-> <<49>>],
      [size |-> "Word", limbs |-> <<65535>>] }

ExecuteDynamics ==
    { DynamicRegister(1), DynamicMemoryRegister(1) }
    \cup { DynamicMemoryConstant(imm) : imm \in ExecuteImmediates }
    \cup { DynamicConstant([size |-> "Byte", limbs |-> <<10>>]) }

ExecuteInstructions ==
    { [extension |-> e, has_data |-> FALSE, data |-> NoData] : e \in {"Add"} }
    \cup { [extension |-> e, has_data |-> TRUE,
            data |-> [width |-> w, destination |-> t, synchronous |-> FALSE,
                      operands |-> OperandsAllPresent(2, d)]] :
             e \in {"Add", "Subtract"}, w \in {"Byte", "Word"}, t \in {"Static", "Dynamic"},
             d \in ExecuteDynamics }

\* cpu0.context.registers[2] = 15, and other values of the two registers used.
ExecuteContexts ==
    { [DefaultContext EXCEPT !.registers[2] = a, !.registers[1] = b] :
        a \in {15, 0, 246, 255}, b \in {0, 10, 50} }

ExecuteMemories == { [i \in 1..MemorySize |-> fill] : fill \in {10, 0, 246} }

InitCore ==
    /\ InitBits
    /\ InitPartsIdle
    /\ InitProgramIdle
    /\ stream = <<>>
    /\ cursor = 0
    /\ decoded = NoResult
    /\ encoded = <<>>
    /\ asked = NoAnswer
    /\ outcome = "none"
    /\ \/ /\ origin = "destination" /\ pc = "built"
          /\ instruction \in Instructions
          /\ context = DefaultContext
          /\ memory = <<>>
       \/ /\ origin = "execute" /\ pc = "built"
          /\ instruction \in ExecuteInstructions
          /\ context \in ExecuteContexts
          /\ memory \in ExecuteMemories

\* instruction.destination()
Destination ==
    /\ origin = "destination" /\ pc = "built"
    /\ asked' = InstructionDestination(instruction)
    /\ pc' = "asked"
    /\ UNCHANGED <<stream, cursor, instruction, decoded, encoded, origin, context, memory, outcome,
                   bitVars, partVars, programVars>>

\* cpu0.execute(&instruction, &mut memory, &mut ports)
Execute ==
    /\ origin = "execute" /\ pc = "built"
    /\ \E result \in {CoreExecute(instruction, context, memory)} :
           /\ outcome' = result.outcome
           /\ context' = result.context
           /\ memory' = result.memory
    /\ pc' = "executed"
    /\ UNCHANGED <<stream, cursor, instruction, decoded, encoded, origin, asked, bitVars, partVars,
                   programVars>>

NextCore == Destination \/ Execute

SpecCore == InitCore /\ [][NextCore]_vars

(***************************************************************************)
(* A stream of several instructions: each instruction of a program is      *)
(* encoded onto the end of one stream, and Instruction::new is then called *)
(* on that stream once per instruction, the reader keeping its position.   *)
(***************************************************************************)
MaxProgram == 2

ProgramData(width, destination, synchronous, operands) ==
    [width |-> width, destination |-> destination, synchronous |-> synchronous, operands |-> operands]

\* Instructions of every length (2, 3, 4 and 11 bytes) and presence, one whose
\* Dynamic destination is a Constant, and two that do not carry what their
\* operation's presence selects (an Add without data, a PlainOp with data).
ProgramInstructions ==
    { [extension |-> "PlainOp", has_data |-> FALSE, data |-> NoData],
      [extension |-> "Add", has_data |-> TRUE,
       data |-> ProgramData("Byte", "Static", FALSE, OperandsAllPresent(7, DynamicRegister(2)))],
      [extension |-> "Add", has_data |-> TRUE,
       data |-> ProgramData("Quad", "Dynamic", TRUE,
                            OperandsAllPresent(0, DynamicMemoryConstant(
                                [size |-> "Quad", limbs |-> <<1, 65535, 0, 65535>>])))],
      [extension |-> "Subtract", has_data |-> TRUE,
       data |-> ProgramData("Word", "Static", TRUE,
                            OperandsAllPresent(2, DynamicConstant([size |-> "Byte", limbs |-> <<10>>])))],
      [extension |-> "StaticOp", has_data |-> TRUE,
       data |-> ProgramData("Word", "Static", FALSE, OperandsStatic(7))],
      [extension |-> "DynamicOp", has_data |-> TRUE,
       data |-> ProgramData("Dual", "Dynamic", FALSE, OperandsDynamic(DynamicMemoryRegister(7)))],
      [extension |-> "DynamicOp", has_data |-> TRUE,
       data |-> ProgramData("Byte", "Dynamic", FALSE,
                            OperandsDynamic(DynamicConstant([size |-> "Word", limbs |-> <<65535>>])))],
      [extension |-> "Add", has_data |-> FALSE, data |-> NoData],
      [extension |-> "PlainOp", has_data |-> TRUE,
       data |-> ProgramData("Byte", "Static", FALSE, OperandsStatic(2))] }

RECURSIVE Programs(_)
Programs(n) ==
    IF n = 0 THEN {<<>>}
    ELSE {Append(p, i) : p \in Programs(n - 1), i \in ProgramInstructions}

InitProgram ==
    /\ InitBits
    /\ InitPartsIdle
    /\ InitCoreIdle
    /\ origin = "program" /\ pc = "built"
    /\ program \in UNION {Programs(n) : n \in 1..MaxProgram}
    /\ pending = program
    /\ results = <<>>
    /\ stream = <<>>
    /\ cursor = 0
    /\ instruction = NoInstruction
    /\ decoded = NoResult
    /\ encoded = <<>>

\* stream.extend(instruction.encode()), for the next instruction of the program
EncodeNext ==
    /\ origin = "program" /\ pending # <<>>
    /\ encoded' = InstructionEncode(Head(pending))
    /\ stream' = stream \o encoded'
    /\ pending' = Tail(pending)
    /\ pc' = IF Len(pending) = 1 THEN "ready" ELSE "built"
    /\ UNCHANGED <<cursor, instruction, decoded, origin, program, results, bitVars, partVars, coreVars>>

\* Instruction::new(&mut stream), on the reader the previous call left
DecodeNext ==
    /\ origin = "program" /\ pending = <<>> /\ Len(results) < Len(program)
    /\ \E result \in {InstructionNew(stream, cursor)} :
           /\ decoded' = [tag |-> result.tag, error |-> result.error, value |-> result.value]
           /\ results' = Append(results, [tag |-> result.tag, error |-> result.error,
                                          value |-> result.value, start |-> cursor,
                                          cursor |-> result.cursor])
           /\ cursor' = result.cursor
    /\ pc' = IF Len(results) + 1 = Len(program) THEN "done" ELSE "ready"
    /\ UNCHANGED <<stream, instruction, encoded, origin, program, pending, bitVars, partVars, coreVars>>

NextProgram == EncodeNext \/ DecodeNext

SpecProgram == InitProgram /\ [][NextProgram]_vars

(***************************************************************************)
(* Properties of the intermediates (SpecParts).                            *)
(***************************************************************************)
\* C11: a Driver whose fields are within their widths (extension < 64,
\* operation < 16, addressing < 4, immediate_exponent < 4) is what Driver::new
\* returns for its encoding, and a Registers with width < 4, x_static < 8 and
\* x_dynamic < 8 is what Registers::new returns for its encoding.
C11_NewAfterEncode ==
    /\ (origin = "driver" /\ pc = "restored" /\ DriverWithinWidths(parts.driver.value))
          => restored.value = parts.driver.value
    /\ (origin = "registers" /\ pc = "restored" /\ RegistersWithinWidths(parts.registers.value))
          => restored.value = parts.registers.value

\* A Driver with every field at the top of its width came back equal.
C11_Witness ==
    /\ origin = "driver" /\ pc = "restored"
    /\ parts.driver.value.extension = 63 /\ parts.driver.value.operation = 15
    /\ parts.driver.value.synchronise /\ ~parts.driver.value.dynamic_destination
    /\ parts.driver.value.addressing = 3 /\ parts.driver.value.immediate_exponent = 3
    /\ encoded = <<254, 255>>
    /\ restored.value = parts.driver.value

\* C12: each of the 65536 driver byte pairs is what Driver::encode returns for
\* the Driver decoded from it, and each of the 256 registers bytes is what
\* Registers::encode returns for the Registers decoded from it; no other
\* registers byte, and no driver pair that differs in one byte, decodes to the
\* same structure.
C12_EncodeAfterNew ==
    /\ (origin = "driver bytes" /\ pc = "done") =>
          /\ encoded = stream
          /\ stream[2] \in {0, 255} =>
                \A b \in U8 : DriverNew(<<b, stream[2]>>) = parts.driver.value => b = stream[1]
          /\ stream[1] \in {0, 255} =>
                \A b \in U8 : DriverNew(<<stream[1], b>>) = parts.driver.value => b = stream[2]
    /\ (origin = "registers byte" /\ pc = "done") =>
          /\ encoded = stream
          /\ \A b \in U8 : RegistersNew(b) = parts.registers.value => b = stream[1]

\* The pair of the doctest on Driver::new was decoded and encoded back.
C12_Witness ==
    /\ origin = "driver bytes" /\ pc = "done"
    /\ stream = <<41, 249>>
    /\ parts.driver.value.extension = 10 /\ parts.driver.value.operation = 15
    /\ parts.driver.value.addressing = 2 /\ parts.driver.value.immediate_exponent = 1
    /\ encoded = stream

\* The bytes of the three parts, one after the other.
PartsBytes ==
    DriverEncode(parts.driver.value)
    \o (IF parts.registers.some THEN <<RegistersEncode(parts.registers.value)>> ELSE <<>>)
    \o (IF parts.immediate.some THEN DataToLeBytes(parts.immediate.value) ELSE <<>>)

DoctestParts ==
    /\ parts.driver.value = DoctestDriver
    /\ parts.registers.some /\ parts.registers.value = DoctestRegisters
    /\ parts.immediate.some /\ parts.immediate.value = [size |-> "Byte", limbs |-> <<10>>]

\* C13 as stated: whatever parts are given, the result is the driver bytes,
\* then the registers byte when registers are given, then the immediate when
\* one is given.
C13_PackedWhateverGiven ==
    (origin = "parts" /\ pc = "packed") => (packed.some /\ packed.value = PartsBytes)

\* C13 (amended): the result is the two driver bytes, then the registers byte
\* when registers are given, then the little-endian immediate when one is
\* given with registers; an immediate given without registers yields None.
\* The parts of the doctest encode to [0b000000_1_0, 0b0000_10_00,
\* 0b00_001_000, 0b00001010].
C13_Packed ==
    (origin = "parts" /\ pc = "packed") =>
        /\ (parts.registers.some \/ ~parts.immediate.some) => (packed.some /\ packed.value = PartsBytes)
        /\ (~parts.registers.some /\ parts.immediate.some) => ~packed.some
        /\ DoctestParts => packed.value = <<2, 8, 8, 10>>

\* The parts of the doctest were encoded.
C13_Witness ==
    /\ origin = "parts" /\ pc = "packed"
    /\ DoctestParts
    /\ packed.some /\ packed.value = <<2, 8, 8, 10>>

(***************************************************************************)
(* Properties of the core (SpecCore).                                      *)
(***************************************************************************)
\* C15: Instruction::destination returns Err(Data) when data is absent; with
\* a Static destination the static operand if the package has one and
\* Err(Static) otherwise; with a Dynamic destination the dynamic operand if
\* the package has one and Err(Dynamic) otherwise; the operand returned is
\* never of the other kind than the destination.
C15_DestinationOperand ==
    (origin = "destination" /\ pc = "asked") =>
        LET data == instruction.data
        IN  /\ ~instruction.has_data => asked = DestinationErr("Data")
            /\ (instruction.has_data /\ data.destination = "Static") =>
                  IF data.operands.kind \in {"Static", "AllPresent"}
                  THEN /\ asked.tag = "ok" /\ asked.operand.kind = "Static"
                       /\ asked.operand.x_static = data.operands.x_static
                  ELSE asked = DestinationErr("Static")
            /\ (instruction.has_data /\ data.destination = "Dynamic") =>
                  IF data.operands.kind \in {"Dynamic", "AllPresent"}
                  THEN /\ asked.tag = "ok" /\ asked.operand.kind = "Dynamic"
                       /\ asked.operand.x_dynamic = data.operands.x_dynamic
                  ELSE asked = DestinationErr("Dynamic")
            /\ (asked.tag = "ok") => (instruction.has_data /\ asked.operand.kind = data.destination)

\* An Add with destination Dynamic, static register 0 and dynamic Register(2)
\* gave the dynamic operand.
C15_Witness ==
    /\ origin = "destination" /\ pc = "asked"
    /\ instruction.extension = "Add" /\ instruction.has_data
    /\ instruction.data.destination = "Dynamic"
    /\ instruction.data.operands = OperandsAllPresent(0, DynamicRegister(2))
    /\ asked = DestinationOk(OperandDynamic(DynamicRegister(2)))

\* The scenario: Add, width Byte, destination Dynamic, static R2, dynamic
\* memory at the constant address 10; R2 = 15, a memory of 50 bytes, all 10.
ScenarioInstruction ==
    [extension |-> "Add", has_data |-> TRUE,
     data |-> [width |-> "Byte", destination |-> "Dynamic", synchronous |-> FALSE,
               operands |-> OperandsAllPresent(2, DynamicMemoryConstant([size |-> "Byte", limbs |-> <<10>>]))]]

ScenarioBefore ==
    /\ origin = "execute" /\ pc = "built"
    /\ instruction = ScenarioInstruction
    /\ context = [DefaultContext EXCEPT !.registers[2] = 15]
    /\ memory = [i \in 1..MemorySize |-> 10]

ScenarioAfter ==
    /\ outcome = "ok"
    /\ memory = [i \in 1..MemorySize |-> IF i = 10 + 1 THEN 25 ELSE 10]
    /\ context.registers = [DefaultContext EXCEPT !.registers[2] = 15].registers
    /\ ~context.flags.zero /\ ~context.flags.carry

\* C17: executing the scenario's instruction from the scenario's state ends
\* with memory[10] = 25, every other byte of memory and every register as
\* before, and the flags Zero and Carry clear.
C17_AddToMemory == [][(ScenarioBefore /\ Execute) => ScenarioAfter']_vars

\* The scenario was executed.
C17_Witness ==
    /\ origin = "execute" /\ pc = "executed"
    /\ instruction = ScenarioInstruction
    /\ context.registers[2] = 15
    /\ memory[11] = 25 /\ memory[12] = 10
    /\ outcome = "ok"

(***************************************************************************)
(* Properties of the bitfield codec (SpecBits).                            *)
(***************************************************************************)
\* C9: for each of the nine fields, every byte u and every input v, extracting
\* the field from set_X(u, v) returns v truncated to the width of the field
\* (6, 1, 1, 4, 2, 2, 2, 3 and 3 bits).
C9_ExtractAfterSet ==
    /\ field = "extension"           => extract_extension(r) = v % 64
    /\ field = "synchronise"         => extract_synchronise(r) = (v = 1)
    /\ field = "dynamic_destination" => extract_dynamic_destination(r) = (v = 1)
    /\ field = "operation"           => extract_operation(r) = v % 16
    /\ field = "addressing"          => extract_addressing(r) = v % 4
    /\ field = "immediate_exponent"  => extract_immediate_exponent(r) = v % 4
    /\ field = "width"               => extract_width(r) = v % 4
    /\ field = "x_static"            => extract_static(r) = v % 8
    /\ field = "x_dynamic"           => extract_dynamic(r) = v % 8

\* A value wider than its field was set into a byte with every bit set.
C9_Witness == field = "x_static" /\ u = 255 /\ v = 253 /\ extract_static(r) = 5

\* C10: for each of the nine fields, every byte u and every input v (wider than
\* the field or not), set_X(u, v) leaves every bit of u outside the field as it
\* was, so the other fields of the byte extract to the same values as before.
C10_SetPreservesOtherFields ==
    /\ field = "extension" =>
          /\ r % 4 = u % 4
          /\ extract_synchronise(r) = extract_synchronise(u)
          /\ extract_dynamic_destination(r) = extract_dynamic_destination(u)
    /\ field = "synchronise" =>
          /\ r \div 4 = u \div 4 /\ r % 2 = u % 2
          /\ extract_extension(r) = extract_extension(u)
          /\ extract_dynamic_destination(r) = extract_dynamic_destination(u)
    /\ field = "dynamic_destination" =>
          /\ r \div 2 = u \div 2
          /\ extract_extension(r) = extract_extension(u)
          /\ extract_synchronise(r) = extract_synchronise(u)
    /\ field = "operation" =>
          /\ r % 16 = u % 16
          /\ extract_addressing(r) = extract_addressing(u)
          /\ extract_immediate_exponent(r) = extract_immediate_exponent(u)
    /\ field = "addressing" =>
          /\ r \div 16 = u \div 16 /\ r % 4 = u % 4
          /\ extract_operation(r) = extract_operation(u)
          /\ extract_immediate_exponent(r) = extract_immediate_exponent(u)
    /\ field = "immediate_exponent" =>
          /\ r \div 4 = u \div 4
          /\ extract_operation(r) = extract_operation(u)
          /\ extract_addressing(r) = extract_addressing(u)
    /\ field = "width" =>
          /\ r % 64 = u % 64
          /\ extract_static(r) = extract_static(u)
          /\ extract_dynamic(r) = extract_dynamic(u)
    /\ field = "x_static" =>
          /\ r \div 64 = u \div 64 /\ r % 8 = u % 8
          /\ extract_width(r) = extract_width(u)
          /\ extract_dynamic(r) = extract_dynamic(u)
    /\ field = "x_dynamic" =>
          /\ r \div 8 = u \div 8
          /\ extract_width(r) = extract_width(u)
          /\ extract_static(r) = extract_static(u)

\* An addressing wider than two bits was set between two fields that are not zero.
C10_Witness == field = "addressing" /\ u = 161 /\ v = 255 /\ r = 173

(***************************************************************************)
(* Properties of the instruction codec (Spec).                             *)
(***************************************************************************)
\* The fields of the stream's bytes, read off arithmetically.
ExtensionBits == stream[1] \div 4
SynchroniseBit == (stream[1] \div 2) % 2
DynamicDestinationBit == stream[1] % 2
OperationBits == stream[2] \div 16
AddressingBits == (stream[2] \div 4) % 4
ImmediateExponentBits == stream[2] % 4
ImmediateLength == Pow2(ImmediateExponentBits)

CodesAssigned ==
    \E e \in Catalog : e.extension = ExtensionBits /\ e.operation = OperationBits
StreamPresence ==
    (CHOOSE e \in Catalog : e.extension = ExtensionBits /\ e.operation = OperationBits).presence
StreamHasDynamic == StreamPresence \in {"Dynamic", "AllPresent"}

DecodedFromBytes == origin = "bytes" /\ pc \in {"decoded", "done"}
DecodedFromInstruction == origin = "instruction" /\ pc \in {"decoded", "done"}
DecodedData == decoded.value.data
DecodedDynamic == decoded.value.data.operands.x_dynamic

\* The invariants of a valid instruction: a Dynamic destination has a dynamic
\* operand that is not a Constant, a Static destination has a static operand,
\* register indices are 0..7.
Section3Invariants(i) ==
    i.has_data =>
        /\ i.data.destination = "Dynamic" => i.data.operands.kind \in {"Dynamic", "AllPresent"}
        /\ i.data.destination = "Dynamic" => i.data.operands.x_dynamic.mode # "Constant"
        /\ i.data.destination = "Static" => i.data.operands.kind \in {"Static", "AllPresent"}
        /\ i.data.width \in Sizes
        /\ i.data.operands.x_static \in 0..7
        /\ i.data.operands.x_dynamic.register \in 0..7

\* The instruction carries what its operation's presence selects: data exactly
\* when the operation has operands, and the package of that presence.
MatchesPresence(i) ==
    /\ i.has_data <=> GetPresence(i.extension) # "None"
    /\ i.has_data => i.data.operands.kind = GetPresence(i.extension)

\* C1 as stated: every instruction that satisfies the invariants, data present
\* or absent and whatever its operand package, decodes from its own encoding
\* to an equal instruction.
C1_RoundTripAnyInstruction ==
    (DecodedFromInstruction /\ Section3Invariants(instruction))
        => (decoded.tag = "ok" /\ decoded.value = instruction)

\* C1 (amended): every instruction that satisfies the invariants and carries
\* what its operation's presence selects decodes from its own encoding to an
\* equal instruction, and the decode consumes the whole encoding.
C1_RoundTrip ==
    (DecodedFromInstruction /\ Section3Invariants(instruction) /\ MatchesPresence(instruction))
        => (decoded.tag = "ok" /\ decoded.value = instruction /\ cursor = Len(stream))

\* An Add writing to memory at an eight-byte constant address came back equal.
C1_Witness ==
    /\ DecodedFromInstruction
    /\ Section3Invariants(instruction) /\ MatchesPresence(instruction)
    /\ instruction.extension = "Add"
    /\ instruction.data.destination = "Dynamic"
    /\ instruction.data.operands.x_dynamic.mode = "MemoryConstant"
    /\ instruction.data.operands.x_dynamic.immediate.size = "Quad"
    /\ instruction.data.operands.x_static = 7
    /\ decoded.value = instruction

\* The fields of the stream that the decoded instruction has no place for.
IgnoredFieldsZero ==
    IF ~decoded.value.has_data
    THEN stream[1] % 4 = 0 /\ stream[2] % 16 = 0
    ELSE /\ DecodedData.operands.kind = "Static" => stream[2] % 16 = 0 /\ stream[3] % 8 = 0
         /\ DecodedData.operands.kind = "Dynamic" => (stream[3] \div 8) % 8 = 0
         /\ DecodedDynamic.mode \in {"Register", "MemoryRegister"} => ImmediateExponentBits = 0
         /\ DecodedDynamic.mode \in {"Constant", "MemoryConstant"} => stream[3] % 8 = 0

\* C2 as stated: every stream that decodes, all of it consumed, is what encode
\* returns for the decoded instruction, whatever the value of each of its bits.
C2_ReencodeAnyStream ==
    (origin = "bytes" /\ pc = "done" /\ cursor = Len(stream)) => encoded = stream

\* C2 (amended): for a stream that decodes, all of it consumed, encode returns
\* the stream with the fields the instruction has no place for written as 0
\* (synchronise, dynamic_destination, addressing and immediate_exponent without
\* data; addressing, immediate_exponent and x_dynamic without a dynamic operand;
\* x_static without a static operand; immediate_exponent without an immediate;
\* x_dynamic with one): it returns the stream itself exactly when they are 0.
C2_ReencodeCanonicalStream ==
    (origin = "bytes" /\ pc = "done" /\ cursor = Len(stream))
        => (encoded = stream <=> IgnoredFieldsZero)

\* An eleven-byte stream with x_dynamic = 0 was decoded and encoded back.
C2_Witness ==
    /\ origin = "bytes" /\ pc = "done" /\ cursor = Len(stream)
    /\ Len(stream) = 11
    /\ IgnoredFieldsZero
    /\ stream[3] # 0
    /\ encoded = stream

\* A stream with both driver bytes, the registers byte and a whole immediate,
\* for an operation with a dynamic operand, dynamic_destination set and the
\* given value in the addressing field.
DynamicDestinationStream(addressing) ==
    /\ DecodedFromBytes
    /\ Len(stream) >= 2
    /\ CodesAssigned /\ StreamHasDynamic
    /\ DynamicDestinationBit = 1
    /\ AddressingBits = addressing
    /\ Len(stream) >= 3 + ImmediateLength

NoDynamicConstantDestination ==
    (decoded.tag = "ok" /\ decoded.value.has_data /\ DecodedData.destination = "Dynamic")
        => DecodedDynamic.mode # "Constant"

\* C3 as stated: dynamic_destination = 1 with the addressing field 0b01 fails
\* with Destination, and no decoded instruction has a Dynamic destination and
\* a Constant dynamic operand.
C3_DestinationAtAddressing1 ==
    /\ DynamicDestinationStream(1)
          => (decoded.tag = "err" /\ decoded.error = <<"Data", "Destination">>)
    /\ NoDynamicConstantDestination

\* C3 (amended): dynamic_destination = 1 with the addressing field 0b10, the
\* code of Constant, fails with Destination, and no decoded instruction has a
\* Dynamic destination and a Constant dynamic operand.
C3_DestinationAtConstant ==
    /\ DynamicDestinationStream(2)
          => (decoded.tag = "err" /\ decoded.error = <<"Data", "Destination">>)
    /\ NoDynamicConstantDestination

\* Such a stream, with a four-byte immediate, was rejected.
C3_Witness ==
    /\ DynamicDestinationStream(2)
    /\ ImmediateExponentBits = 2
    /\ decoded.error = <<"Data", "Destination">>

\* C4: every decoded instruction with data has the operand its destination
\* names: the dynamic operand when the destination is Dynamic, the static
\* operand when it is Static; a stream whose dynamic_destination bit names an
\* operand the operation's presence does not include fails with Destination.
C4_DestinationOperandPresent ==
    /\ (decoded.tag = "ok" /\ decoded.value.has_data) =>
          /\ DecodedData.destination = "Dynamic" => DecodedData.operands.kind \in {"Dynamic", "AllPresent"}
          /\ DecodedData.destination = "Static" => DecodedData.operands.kind \in {"Static", "AllPresent"}
    /\ (/\ DecodedFromBytes /\ Len(stream) >= 3 /\ CodesAssigned
        /\ \/ DynamicDestinationBit = 1 /\ StreamPresence = "Static"
           \/ DynamicDestinationBit = 0 /\ StreamPresence = "Dynamic" /\ Len(stream) >= 3 + ImmediateLength)
          => (decoded.tag = "err" /\ decoded.error = <<"Data", "Destination">>)

\* C5: when the driver bytes name an operation without operands, decode
\* returns the instruction with no data and the cursor rests after the two
\* driver bytes, whatever the other bits and whatever follows.
C5_NoOperandDecode ==
    (DecodedFromBytes /\ Len(stream) >= 2 /\ CodesAssigned /\ StreamPresence = "None") =>
        /\ decoded.tag = "ok"
        /\ ~decoded.value.has_data
        /\ GetPresence(decoded.value.extension) = "None"
        /\ cursor = 2

\* A twelve-byte stream naming such an operation, with Constant addressing
\* and immediate_exponent 3 in its driver, was decoded.
C5_Witness ==
    /\ DecodedFromBytes /\ Len(stream) = 12
    /\ CodesAssigned /\ StreamPresence = "None"
    /\ AddressingBits = 2 /\ ImmediateExponentBits = 3 /\ SynchroniseBit = 1
    /\ cursor = 2

\* C6: a successful decode of an instruction with data consumes 3 bytes when
\* its dynamic operand is a Register or memory at a register (or absent), and
\* 3 + 2^immediate_exponent bytes when it is a Constant or memory at a
\* constant; the immediate is those bytes, and what follows stays unread.
C6_BytesConsumed ==
    (DecodedFromBytes /\ decoded.tag = "ok" /\ decoded.value.has_data) =>
        /\ DecodedDynamic.mode \in {"Absent", "Register", "MemoryRegister"} =>
              cursor = 3 /\ DecodedDynamic.immediate = NoImmediate
        /\ DecodedDynamic.mode \in {"Constant", "MemoryConstant"} =>
              /\ cursor = 3 + ImmediateLength
              /\ DataToLeBytes(DecodedDynamic.immediate) = SubSeq(stream, 4, 3 + ImmediateLength)
        /\ DecodedDynamic.mode # "Absent" => DynamicAddressing(DecodedDynamic) = AddressingBits
        /\ cursor <= Len(stream)

\* An eight-byte immediate was read and the byte after it left in the stream.
C6_Witness ==
    /\ DecodedFromBytes /\ decoded.tag = "ok" /\ decoded.value.has_data
    /\ DecodedDynamic.mode = "MemoryConstant"
    /\ cursor = 11 /\ Len(stream) > 11

\* The bytes a decoded instruction is made of.
BytesNeeded(i) ==
    IF ~i.has_data THEN 2
    ELSE IF i.data.operands.x_dynamic.immediate = NoImmediate THEN 3
    ELSE 3 + Pow2(SizeExponent(i.data.operands.x_dynamic.immediate.size))

\* C7: decode fails with a Length error when the stream ends before both
\* driver bytes, before the registers byte of an operation with operands, or
\* before the last byte of a required immediate; an instruction is returned
\* only when every byte it is made of was in the stream.
C7_ShortStreamFailsWithLength ==
    DecodedFromBytes =>
        /\ Len(stream) < 2 => (decoded.tag = "err" /\ decoded.error = <<"Length">>)
        /\ (Len(stream) = 2 /\ CodesAssigned /\ StreamPresence # "None")
              => (decoded.tag = "err" /\ decoded.error = <<"Data", "Length">>)
        /\ (/\ Len(stream) >= 3 /\ CodesAssigned /\ StreamHasDynamic
            /\ AddressingBits \in {CONSTANT_ADDRESSING, MEMORY_CONSTANT_ADDRESSING}
            /\ Len(stream) < 3 + ImmediateLength)
              => (decoded.tag = "err" /\ decoded.error = <<"Data", "Operands", "Length">>)
        /\ decoded.tag = "ok" => Len(stream) >= BytesNeeded(decoded.value)

\* A stream that ends four bytes into an eight-byte immediate was rejected.
C7_Witness ==
    /\ DecodedFromBytes /\ Len(stream) = 7
    /\ CodesAssigned /\ StreamHasDynamic
    /\ AddressingBits = CONSTANT_ADDRESSING /\ ImmediateExponentBits = 3
    /\ decoded.error = <<"Data", "Operands", "Length">>

\* C8: when the extension code or the operation code of the driver bytes is
\* unassigned, decode fails with InvalidCode with the cursor after the two
\* driver bytes, also when the stream holds nothing else.
C8_InvalidCodeAfterDriver ==
    (DecodedFromBytes /\ Len(stream) >= 2 /\ ~CodesAssigned) =>
        /\ decoded.tag = "err"
        /\ decoded.error = <<"InvalidCode">>
        /\ cursor = 2

\* A stream of two driver bytes with an unassigned operation code was rejected.
C8_Witness ==
    /\ DecodedFromBytes /\ Len(stream) = 2
    /\ ExtensionBits = ARITHMETIC_CODE /\ OperationBits = 15
    /\ decoded.error = <<"InvalidCode">>
    /\ cursor = 2

\* The synchronous flag an instruction records: that of its data, and none
\* without data (what Instruction::encode emits then).
InstructionSynchronous(i) == i.has_data /\ i.data.synchronous

\* The instruction the last encode was applied to.
Encoding ==
    \/ origin = "instruction" /\ pc \in {"encoded", "ready", "decoded"}
    \/ pc = "done"
EncodedInstruction == IF pc = "done" THEN decoded.value ELSE instruction

\* C14: for every operation, with operands or without, the decoded
\* instruction records a synchronous flag equal to the synchronise bit of
\* driver byte 0, and encode emits a synchronise bit equal to the flag of the
\* instruction.
C14_SynchronisePropagated ==
    /\ (DecodedFromBytes /\ decoded.tag = "ok")
          => (InstructionSynchronous(decoded.value) <=> SynchroniseBit = 1)
    /\ Encoding
          => ((encoded[1] \div 2) % 2 = 1 <=> InstructionSynchronous(EncodedInstruction))

\* C16: a decoded instruction with data has the destination Dynamic exactly
\* when bit 0 of driver byte 0 is set, and Static otherwise; encode sets that
\* bit exactly when the instruction has data whose destination is Dynamic.
C16_DestinationFromBit ==
    /\ (DecodedFromBytes /\ decoded.tag = "ok" /\ decoded.value.has_data) =>
          /\ DecodedData.destination = "Dynamic" <=> DynamicDestinationBit = 1
          /\ DecodedData.destination = "Static" <=> DynamicDestinationBit = 0
    /\ Encoding =>
          (encoded[1] % 2 = 1
              <=> (EncodedInstruction.has_data /\ EncodedInstruction.data.destination = "Dynamic"))

\* A stream with the bit set was decoded to a Dynamic destination, memory at a
\* register, and encoded with the bit set.
C16_Witness ==
    /\ origin = "bytes" /\ pc = "done"
    /\ DynamicDestinationBit = 1
    /\ DecodedData.destination = "Dynamic"
    /\ DecodedDynamic.mode = "MemoryRegister"
    /\ encoded[1] % 2 = 1

\* C18: decode never panics: every registers byte gives a width exponent in
\* 0..3, for which the size conversion of Data::new succeeds, and register
\* indices in 0..7; every decode ends in an instruction or in an error value,
\* and a decoded instruction has a width and register indices in 0..7.
C18_DecodeNeverPanics ==
    /\ pc \in {"decoded", "done"} =>
          /\ decoded.tag \in {"ok", "err"}
          /\ decoded.tag = "err" => (decoded.error # <<>> /\ decoded.value = NoInstruction)
          /\ (decoded.tag = "ok" /\ decoded.value.has_data) =>
                /\ DecodedData.width \in Sizes
                /\ DecodedData.operands.x_static \in 0..7
                /\ DecodedDynamic.register \in 0..7
    /\ (DecodedFromBytes /\ pc = "decoded" /\ Len(stream) = 3) =>
          \A b \in U8 :
              /\ extract_width(b) \in 0..3
              /\ SizeFromExponent(extract_width(b)).some
              /\ extract_static(b) \in 0..7
              /\ extract_dynamic(b) \in 0..7

\* A registers byte with width 3, x_static 5 and x_dynamic 3 was decoded.
C18_Witness ==
    /\ DecodedFromBytes /\ Len(stream) = 3
    /\ stream[3] = 235
    /\ decoded.tag = "ok"
    /\ DecodedData.width = "Quad"
    /\ DecodedData.operands.x_static = 5
    /\ DecodedDynamic.register = 3

\* C19: encode writes 0 into every field the instruction has no source for:
\* addressing and x_dynamic without a dynamic operand, immediate_exponent when
\* the dynamic operand has no immediate, x_dynamic when the dynamic operand is
\* a Constant or memory at a constant, x_static without a static operand;
\* without data it returns 2 bytes with synchronise, dynamic_destination,
\* addressing and immediate_exponent 0.
C19_EncodeZeroesUnsourcedFields ==
    Encoding =>
        LET i == EncodedInstruction
            operands == i.data.operands
        IN  /\ ~i.has_data => (Len(encoded) = 2 /\ encoded[1] % 4 = 0 /\ encoded[2] % 16 = 0)
            /\ i.has_data => Len(encoded) >= 3
            /\ (i.has_data /\ operands.kind = "Static") =>
                  ((encoded[2] \div 4) % 4 = 0 /\ encoded[3] % 8 = 0)
            /\ (i.has_data /\ operands.x_dynamic.mode \in {"Absent", "Register", "MemoryRegister"}) =>
                  (encoded[2] % 4 = 0 /\ Len(encoded) = 3)
            /\ (i.has_data /\ operands.x_dynamic.mode \in {"Constant", "MemoryConstant"}) =>
                  encoded[3] % 8 = 0
            /\ (i.has_data /\ operands.kind = "Dynamic") => (encoded[3] \div 8) % 8 = 0

\* An instruction with a Quad width, only a dynamic operand, memory at an
\* eight-byte constant, was encoded.
C19_Witness ==
    /\ origin = "instruction" /\ pc = "encoded"
    /\ instruction.has_data
    /\ instruction.data.width = "Quad"
    /\ instruction.data.operands.kind = "Dynamic"
    /\ instruction.data.operands.x_dynamic.mode = "MemoryConstant"
    /\ Len(encoded) = 11
    /\ encoded[3] = 192

\* C20: decode reads the driver bytes, looks the codes up, consults the
\* presence, reads the registers byte, constructs the operands (reading the
\* immediate) and checks the destination, in this order, and stops at the
\* first failure: with dynamic_destination = 1 and Constant addressing a
\* truncated immediate fails with the Length error of the immediate read, and
\* a whole one with Destination; a failure returns no instruction and leaves
\* all but the cursor alone.
C20_DecodeOrder ==
    DecodedFromBytes =>
        /\ Len(stream) < 2 =>
              (decoded.tag = "err" /\ decoded.error = <<"Length">> /\ cursor = Len(stream))
        /\ (Len(stream) >= 2 /\ ~CodesAssigned) =>
              (decoded.tag = "err" /\ decoded.error = <<"InvalidCode">> /\ cursor = 2)
        /\ (Len(stream) >= 2 /\ CodesAssigned /\ StreamPresence = "None") =>
              (decoded.tag = "ok" /\ cursor = 2)
        /\ (Len(stream) = 2 /\ CodesAssigned /\ StreamPresence # "None") =>
              (decoded.tag = "err" /\ decoded.error = <<"Data", "Length">> /\ cursor = 2)
        /\ (/\ Len(stream) >= 3 /\ CodesAssigned /\ StreamHasDynamic
            /\ AddressingBits \in {CONSTANT_ADDRESSING, MEMORY_CONSTANT_ADDRESSING}
            /\ Len(stream) < 3 + ImmediateLength) =>
              /\ decoded.tag = "err" /\ decoded.error = <<"Data", "Operands", "Length">>
              /\ cursor = Len(stream)
        /\ (/\ Len(stream) >= 3 /\ CodesAssigned /\ StreamHasDynamic
            /\ AddressingBits = CONSTANT_ADDRESSING /\ DynamicDestinationBit = 1
            /\ Len(stream) >= 3 + ImmediateLength) =>
              /\ decoded.tag = "err" /\ decoded.error = <<"Data", "Destination">>
              /\ cursor = 3 + ImmediateLength
        /\ decoded.tag = "err" =>
              /\ decoded.value = NoInstruction
              /\ origin = "bytes" => (instruction = NoInstruction /\ encoded = <<>>)

\* A stream with dynamic_destination = 1 and Constant addressing that ends one
\* byte into a two-byte immediate failed with the Length error of that read.
C20_Witness ==
    /\ DecodedFromBytes /\ Len(stream) = 4
    /\ CodesAssigned /\ StreamHasDynamic
    /\ DynamicDestinationBit = 1
    /\ AddressingBits = CONSTANT_ADDRESSING /\ ImmediateExponentBits = 1
    /\ decoded.error = <<"Data", "Operands", "Length">>
    /\ cursor = 4

(***************************************************************************)
(* Properties of a stream of several instructions (SpecProgram).           *)
(***************************************************************************)
\* Where the encoding of the k-th instruction of the program ends.
RECURSIVE Boundary(_)
Boundary(k) == IF k = 0 THEN 0 ELSE Boundary(k - 1) + Len(InstructionEncode(program[k]))

\* The calls made so far returned the instructions of the program, in order,
\* each from where the previous encoding ends to where its own ends.
ProgramReturned ==
    /\ \A k \in 1..Len(results) :
          /\ results[k].tag = "ok"
          /\ results[k].value = program[k]
          /\ results[k].start = Boundary(k - 1)
          /\ results[k].cursor = Boundary(k)
    /\ Len(results) = Len(program) => cursor = Len(stream)

ProgramDecoding == origin = "program" /\ pending = <<>>

\* C21 as stated: for instructions that satisfy the invariants, whatever else
\* they carry, the calls return them in order, each call starting where the
\* previous one stopped, and the last leaves the cursor at the end.
C21_ProgramOfAnyInstructions ==
    (ProgramDecoding /\ \A k \in 1..Len(program) : Section3Invariants(program[k]))
        => ProgramReturned

\* C21 (amended): for instructions that satisfy the invariants and carry what
\* their operation's presence selects, the calls of Instruction::new on the
\* concatenation of their encodings return them in order, each call starting
\* where the previous one stopped, which is where the encoding of the
\* previous instruction ends, and the last leaves the cursor at the end.
C21_ProgramReturned ==
    (/\ ProgramDecoding
     /\ \A k \in 1..Len(program) : Section3Invariants(program[k]) /\ MatchesPresence(program[k]))
        => ProgramReturned

\* An eleven-byte Add followed by a two-byte operation without operands was
\* read back from one stream of thirteen bytes.
C21_Witness ==
    /\ ProgramDecoding
    /\ Len(program) = 2 /\ Len(results) = 2
    /\ program[1].extension = "Add" /\ program[1].data.width = "Quad"
    /\ program[2].extension = "PlainOp" /\ ~program[2].has_data
    /\ results[1].value = program[1] /\ results[1].cursor = 11
    /\ results[2].value = program[2] /\ results[2].start = 11
    /\ cursor = 13 /\ Len(stream) = 13

====
